---- MODULE Spec2Model ----
(***************************************************************************)
(* Model of the restroom check / incident backend (backend/server.js) and  *)
(* of the part of the React client that pre-checks a restroom before it    *)
(* posts a check (src/App.jsx).                                            *)
(*                                                                         *)
(* Every Express handler runs to completion on Node's single thread: the   *)
(* store is better-sqlite3, whose statements are synchronous, and no       *)
(* handler awaits between its statements.  One action is one handled       *)
(* request.                                                                *)
(***************************************************************************)
EXTENDS Integers, Sequences, FiniteSets, TLC

(***************************************************************************)
(* Bounds of the model.                                                    *)
(***************************************************************************)
MaxClock == 1        \* the millisecond clock runs 0..MaxClock
MaxChecks == 1       \* rows of the checks table
MaxIncidents == 2    \* rows of the incidents table
MaxMonth == 1        \* the monthly task is followed through months 0..MaxMonth
MaxLog == 3          \* audit rows per file, and broadcasts

(***************************************************************************)
(* Seed data and request inputs.                                           *)
(***************************************************************************)
Restrooms == {"g-wing", "h-wing"}
Custodians == {"joel"}
Sessions == {"s1", "s2"}

NULL == -1           \* SQL NULL / JS null in a timestamp or id position
UnknownId == 99      \* an incident id that matches no row
Missing == ""        \* a falsy (absent or empty) request field

CustodianInputs == Custodians \cup {Missing, "nobody"}
RestroomInputs == Restrooms \cup {Missing, "x-wing"}
DescriptionInputs == {Missing, "clogged"}
\* A password is a sequence of characters; "s" stands for the staff secret,
\* "a" for the admin secret, "w" for anything else, " " for white space.  A
\* request field is a string or some other JSON value.
Str(chars) == [isString |-> TRUE, chars |-> chars]
NotStr(chars) == [isString |-> FALSE, chars |-> chars]

StaffPw == Str(<<"s">>)
AdminPw == Str(<<"a">>)

PasswordInputs ==
  {Str(<<>>), Str(<<" ">>), StaffPw, Str(<<"s", " ">>), AdminPw, Str(<<" ", "a">>),
   Str(<<"w">>), NotStr(<<"s">>), NotStr(<<"a">>)}

\* the passwords tried against the installation with both secrets set
TriedPasswords == {Str(<<>>), StaffPw, AdminPw, Str(<<"w">>)}

\* the secrets an installation may have in its environment; <<>> is unset
EnvConfigs ==
  [USER_PASSWORD : {<<>>, <<"s">>, <<" ", "s">>, <<" ">>},
   ADMIN_PASSWORD : {<<>>, <<"a">>, <<" ">>},
   SMTP : {TRUE},
   ADMIN_EMAIL : {TRUE}]

ReadEndpoints == {"GET /restrooms", "GET /custodians", "GET /checks", "GET /incidents"}
OpenReadEndpoints == {"GET /health", "GET /auth/status", "GET /admin/status"}

VARIABLES
  env,             \* process.env: the two secrets, SMTP credentials set, ADMIN_EMAIL set
  sessions,        \* session store: id -> flags of req.session
  checks,          \* checks table, rows in insertion order
  incidents,       \* incidents table, rows in insertion order
  now,             \* Date.now()
  reports,         \* reports/<YYYY-MM>.csv: month -> lines of the file
  broadcasts,      \* events handed to broadcastSSE, in order
  emails,          \* number of incident emails handed to sendIncidentEmail
  clientIncidents, \* the React client's `incidents` state (last GET /incidents)
  clientLogs,      \* the React client's `logs` state (last GET /checks)
  resp,            \* the request handled by the last step, its response and the
                   \* event streams its broadcast wrote to, in order
  inflight,        \* requests whose session is loaded and whose handler has not run
  sseClients,      \* the registry of event streams, in order of connection
  streams,         \* the connection of each event stream
  outbox,          \* sendMail calls whose promise has not settled
  es,              \* the React client's EventSource and the events it handled
  zone             \* the server's time zone and the last run of the monthly task in it

vars == <<env, sessions, checks, incidents, now, reports, broadcasts, emails,
          clientIncidents, clientLogs, resp, inflight, sseClients, streams, outbox,
          es, zone>>

store == <<checks, incidents>>
effects == <<reports, broadcasts, emails>>

\* the requests that may be in flight at once
Requests == {"q1", "q2"}

\* the connections that may be opened as event streams
Listeners == {"l1", "l2"}

NewSession == [isAuthenticated |-> FALSE, isAdmin |-> FALSE]

Idle == [ep |-> "", sid |-> "", session |-> NewSession, raw |-> Str(<<>>)]

NoResp == [ep |-> "none", sid |-> "none", status |-> 0, writes |-> <<>>, did |-> <<>>]

Response(ep, s, status) ==
  [ep |-> ep, sid |-> s, status |-> status, writes |-> <<>>, did |-> <<>>]

\* no EventSource was created: the SSE effect has not run
NoEs == [state |-> "none", seen |-> 0, closedAt |-> 0]

\* a server in UTC whose monthly task has not run
NoZone == [offset |-> 0, month |-> NULL, utcMonth |-> NULL, YYYYMM |-> NULL]

\* the effects a handler carried out before it answered, in program order
Did(response, done) == [response EXCEPT !.did = done]

(***************************************************************************)
(* Seed lookups: SELECT name FROM restrooms / custodians WHERE id = ?      *)
(***************************************************************************)
RestroomName(id) ==
  IF id = "g-wing" THEN "G Wing" ELSE IF id = "h-wing" THEN "H Wing" ELSE id

CustodianName(id) ==
  IF id = "joel" THEN "Joel" ELSE id

(***************************************************************************)
(* Guards.                                                                 *)
(***************************************************************************)
\* variant: the admin flag also passes the staff guard
isAuthenticated_orAdmin(s) == sessions[s].isAuthenticated \/ sessions[s].isAdmin

\* variant: the staff guard lets every session through
isAuthenticated_always(s) == TRUE

\* variant: the guard passes when any session of the store is logged in
isAuthenticated_any(s) == \E other \in Sessions : sessions[other].isAuthenticated

isAuthenticated(s) == sessions[s].isAuthenticated

\* variant: the admin guard lets every session through
isAdmin_always(s) == TRUE

isAdmin(s) == sessions[s].isAdmin

\* variant: the transport alone counts as configured mail
mailConfigured_transportOnly == env.SMTP

\* mailTransport && process.env.ADMIN_EMAIL, mailTransport being created when
\* SMTP_USER and SMTP_PASS are set
mailConfigured == env.SMTP /\ env.ADMIN_EMAIL

(***************************************************************************)
(* SELECT * FROM incidents WHERE restroomId = ? AND pending = 1            *)
(***************************************************************************)
\* variant: the lookup forgets `AND pending = 1`
activeIncident_anyStatus(restroomId) ==
  SelectSeq(incidents, LAMBDA i : i.restroomId = restroomId)

\* variant: the handler trusts the client's pre-check and looks nothing up
activeIncident_trustClient(restroomId) == <<>>

\* variant: the lookup tests the flag for the wrong value
activeIncident_wrongFlag(restroomId) ==
  SelectSeq(incidents, LAMBDA i : i.restroomId = restroomId /\ i.pending = 0)

activeIncident(restroomId) ==
  SelectSeq(incidents, LAMBDA i : i.restroomId = restroomId /\ i.pending = 1)

\* variant: the id column carries no PRIMARY KEY constraint
RowIds_none(table) == {}

\* the values of the PRIMARY KEY column of a table
RowIds(table) == {table[k].id : k \in DOMAIN table}

(***************************************************************************)
(* Event streams.                                                          *)
(***************************************************************************)
\* res.write(payload) returns for an open stream and for a stalled one (the
\* payload is buffered); it throws for a broken one
Writable(l) == streams[l] \in {"open", "stalled"}

\* variant: the try/catch encloses the whole loop, the first throw ends it
RECURSIVE forEachWrite_abort(_)
forEachWrite_abort(clients) ==
  IF clients = <<>> \/ ~Writable(Head(clients)) THEN <<>>
  ELSE <<Head(clients)>> \o forEachWrite_abort(Tail(clients))

\* sseClients.forEach(res => { try { res.write(payload) } catch (err) {} }):
\* the streams the payload is written to, in order
RECURSIVE forEachWrite(_)
forEachWrite(clients) ==
  IF clients = <<>> THEN <<>>
  ELSE (IF Writable(Head(clients)) THEN <<Head(clients)>> ELSE <<>>)
         \o forEachWrite(Tail(clients))

\* the response of a handler that called broadcastSSE
Broadcast(response) == [response EXCEPT !.writes = forEachWrite(sseClients)]

(***************************************************************************)
(* Audit file.                                                             *)
(***************************************************************************)
REPORT_HEADER == "Date,Type,Restroom,Custodian,Details"

\* toISOString().slice(0, 7): two clock values make a calendar month
MonthOf(t) == t \div 2

getCurrentReportPath == MonthOf(now)

\* variant: the header is written whether or not the file exists
ensureReportHeader_always(files, filePath) ==
  [p \in DOMAIN files \cup {filePath} |->
     IF p = filePath THEN <<REPORT_HEADER>> ELSE files[p]]

\* if (!fs.existsSync(filePath)) fs.writeFileSync(filePath, REPORT_HEADER)
ensureReportHeader(files, filePath) ==
  IF filePath \in DOMAIN files
    THEN files
    ELSE [p \in DOMAIN files \cup {filePath} |->
            IF p = filePath THEN <<REPORT_HEADER>> ELSE files[p]]

appendReportRow(row) ==
  LET filePath == getCurrentReportPath
      withHeader == ensureReportHeader(reports, filePath)
  IN [withHeader EXCEPT ![filePath] = Append(@, row)]

ReportRow(type, restroom, custodian, details) ==
  [date |-> now, type |-> type, restroom |-> restroom,
   custodian |-> custodian, details |-> details]

CurrentReportLen ==
  IF getCurrentReportPath \in DOMAIN reports THEN Len(reports[getCurrentReportPath]) ELSE 1

\* the model stops logging mutations once a log holds MaxLog entries
LogRoom == CurrentReportLen <= MaxLog /\ Len(broadcasts) < MaxLog

(***************************************************************************)
(* Initial state: seeded store, no rows, no session flag set.              *)
(***************************************************************************)
Init ==
  /\ es = NoEs
  /\ zone = NoZone
  /\ env = [USER_PASSWORD |-> <<"s">>, ADMIN_PASSWORD |-> <<"a">>,
            SMTP |-> TRUE, ADMIN_EMAIL |-> TRUE]
  /\ sessions = [s \in Sessions |-> [isAuthenticated |-> FALSE, isAdmin |-> FALSE]]
  /\ checks = <<>>
  /\ incidents = <<>>
  /\ now = 0
  /\ reports = <<>>
  /\ broadcasts = <<>>
  /\ emails = 0
  /\ clientIncidents = <<>>
  /\ clientLogs = <<>>
  /\ resp = NoResp
  /\ inflight = [q \in Requests |-> Idle]
  /\ sseClients = <<>>
  /\ streams = [l \in Listeners |-> "none"]
  /\ outbox = <<>>

(***************************************************************************)
(* The clock advances between requests.                                    *)
(***************************************************************************)
Tick ==
  /\ now < MaxClock
  /\ now' = now + 1
  /\ resp' = NoResp
  /\ UNCHANGED <<env, es, zone, clientLogs, sseClients, streams, outbox, inflight, sessions, checks, incidents, reports, broadcasts, emails,
                 clientIncidents>>

(***************************************************************************)
(* POST /api/checks                                                        *)
(***************************************************************************)
CheckRow(custodianId, restroomId) ==
  [id |-> now, custodianId |-> custodianId, restroomId |-> restroomId,
   timestamp |-> now, notes |-> ""]

\* the statements of the handler: they read incidents and write checks, the
\* audit file, the broadcast and the response
logCheck(s, custodianId, restroomId, fsOk) ==
  LET ep == "POST /checks" IN
  /\ IF ~isAuthenticated(s)
       THEN /\ resp' = Response(ep, s, 401)
            /\ UNCHANGED <<checks, reports, broadcasts>>
     ELSE IF custodianId = Missing \/ restroomId = Missing
       THEN /\ resp' = Response(ep, s, 400)
            /\ UNCHANGED <<checks, reports, broadcasts>>
     ELSE IF Len(activeIncident(restroomId)) > 0
       THEN /\ resp' = Response(ep, s, 403)
            /\ UNCHANGED <<checks, reports, broadcasts>>
     ELSE IF \/ now \in RowIds(checks)
             \/ custodianId \notin Custodians
             \/ restroomId \notin Restrooms
       THEN \* INSERT throws: PRIMARY KEY or FOREIGN KEY constraint
            /\ resp' = Response(ep, s, 500)
            /\ UNCHANGED <<checks, reports, broadcasts>>
     ELSE /\ Len(SelectSeq(checks, LAMBDA c : c.timestamp >= 0)) < MaxChecks
          /\ LogRoom
          /\ checks' = Append(checks, CheckRow(custodianId, restroomId))
          /\ IF fsOk
               THEN /\ reports' = appendReportRow(ReportRow("Check",
                                     RestroomName(restroomId), CustodianName(custodianId), ""))
                    /\ broadcasts' = Append(broadcasts, "check")
                    /\ resp' = Did(Broadcast(Response(ep, s, 201)),
                                   <<"insert", "audit", "broadcast">>)
               ELSE \* appendReportRow throws: caught, 500, no broadcast
                    /\ resp' = Did(Response(ep, s, 500), <<"insert">>)
                    /\ UNCHANGED <<reports, broadcasts>>

PostChecks(s, custodianId, restroomId, fsOk) ==
  /\ logCheck(s, custodianId, restroomId, fsOk)
  /\ UNCHANGED <<env, es, zone, clientLogs, sseClients, streams, outbox, inflight, sessions, incidents, now, emails, clientIncidents>>

(***************************************************************************)
(* POST /api/incidents                                                     *)
(***************************************************************************)
\* ORDER BY timestamp DESC LIMIT 1 over a non-empty sequence of rows
LatestOf(rows) ==
  rows[CHOOSE k \in DOMAIN rows :
         \A j \in DOMAIN rows : rows[j].timestamp <= rows[k].timestamp]

\* variant: the latest check of any restroom
lastCheck_any(restroomId) ==
  IF Len(checks) = 0 THEN NULL ELSE LatestOf(checks).timestamp

\* SELECT timestamp FROM checks WHERE restroomId = ? ORDER BY timestamp DESC LIMIT 1
lastCheck(restroomId) ==
  LET rows == SelectSeq(checks, LAMBDA c : c.restroomId = restroomId)
  IN IF Len(rows) = 0 THEN NULL ELSE LatestOf(rows).timestamp

IncidentRow(custodianId, restroomId, description) ==
  [id |-> now, custodianId |-> custodianId, restroomId |-> restroomId,
   description |-> description, severity |-> "medium", timestamp |-> now,
   pending |-> 1, resolvedAt |-> NULL, lastCheckedAt |-> lastCheck(restroomId)]

\* sendIncidentEmail: one sendMail call when mail is configured; its outcome
\* is only logged
sendIncidentEmail == IF mailConfigured THEN emails + 1 ELSE emails

\* mailTransport.sendMail(payload): the promise is pending
IncidentMail == [kind |-> "incident", month |-> NULL]

queueIncidentEmail == IF mailConfigured THEN Append(outbox, IncidentMail) ELSE outbox

\* the sendMail call among the effects of the handler
sentEmail == IF mailConfigured THEN <<"email">> ELSE <<>>

\* the statements of the handler: they read checks and write incidents, the
\* email, the audit file, the broadcast and the response
reportIncident(s, custodianId, restroomId, description, fsOk) ==
  LET ep == "POST /incidents" IN
  /\ IF ~isAuthenticated(s)
       THEN /\ resp' = Response(ep, s, 401)
            /\ UNCHANGED <<incidents, reports, broadcasts, emails, outbox>>
     ELSE IF custodianId = Missing \/ restroomId = Missing \/ description = Missing
       THEN /\ resp' = Response(ep, s, 400)
            /\ UNCHANGED <<incidents, reports, broadcasts, emails, outbox>>
     ELSE IF \/ now \in RowIds(incidents)
             \/ custodianId \notin Custodians
             \/ restroomId \notin Restrooms
       THEN \* INSERT throws: PRIMARY KEY or FOREIGN KEY constraint
            /\ resp' = Response(ep, s, 500)
            /\ UNCHANGED <<incidents, reports, broadcasts, emails, outbox>>
     ELSE /\ Len(incidents) < MaxIncidents
          /\ LogRoom
          /\ incidents' = Append(incidents, IncidentRow(custodianId, restroomId, description))
          /\ emails' = sendIncidentEmail
          /\ outbox' = queueIncidentEmail
          /\ IF fsOk
               THEN /\ reports' = appendReportRow(ReportRow("Incident",
                                     RestroomName(restroomId), CustodianName(custodianId),
                                     description))
                    /\ broadcasts' = Append(broadcasts, "incident")
                    /\ resp' = Did(Broadcast(Response(ep, s, 201)),
                                   <<"insert">> \o sentEmail \o <<"audit", "broadcast">>)
               ELSE \* appendReportRow throws: caught, 500, no broadcast
                    /\ resp' = Did(Response(ep, s, 500), <<"insert">> \o sentEmail)
                    /\ UNCHANGED <<reports, broadcasts>>

\* variant: a report also clears the checks of the restroom
PostIncidents_dropChecks(s, custodianId, restroomId, description, fsOk) ==
  /\ reportIncident(s, custodianId, restroomId, description, fsOk)
  /\ checks' = SelectSeq(checks, LAMBDA c : c.restroomId # restroomId)
  /\ UNCHANGED <<env, es, zone, clientLogs, sseClients, streams, inflight, sessions, now, clientIncidents>>

PostIncidents(s, custodianId, restroomId, description, fsOk) ==
  /\ reportIncident(s, custodianId, restroomId, description, fsOk)
  /\ UNCHANGED <<env, es, zone, clientLogs, sseClients, streams, inflight, sessions, checks, now, clientIncidents>>

(***************************************************************************)
(* POST /api/incidents/resolve                                             *)
(***************************************************************************)
\* UPDATE incidents SET pending = 0, resolvedAt = ? WHERE id = ?
\* variant: the update flips the flag instead of clearing it
resolveUpdate_toggle(incidentId) ==
  [k \in DOMAIN incidents |->
     IF incidents[k].id = incidentId
       THEN [incidents[k] EXCEPT !.pending = 1 - @, !.resolvedAt = now]
       ELSE incidents[k]]

\* variant: the update clears the flag and leaves resolvedAt alone
resolveUpdate_noTimestamp(incidentId) ==
  [k \in DOMAIN incidents |->
     IF incidents[k].id = incidentId
       THEN [incidents[k] EXCEPT !.pending = 0]
       ELSE incidents[k]]

\* variant: the update has no WHERE clause
resolveUpdate_noWhere(incidentId) ==
  [k \in DOMAIN incidents |-> [incidents[k] EXCEPT !.pending = 0, !.resolvedAt = now]]

resolveUpdate(incidentId) ==
  [k \in DOMAIN incidents |->
     IF incidents[k].id = incidentId
       THEN [incidents[k] EXCEPT !.pending = 0, !.resolvedAt = now]
       ELSE incidents[k]]

\* variant: the lookup has no WHERE clause and names the first incident's restroom
resolvedRestroom_first(incidentId) ==
  IF Len(incidents) = 0 THEN "Unknown" ELSE RestroomName(incidents[1].restroomId)

\* SELECT r.name as restroom FROM incidents i JOIN restrooms r ... WHERE i.id = ?
resolvedRestroom(incidentId) ==
  LET rows == SelectSeq(incidents, LAMBDA i : i.id = incidentId)
  IN IF Len(rows) = 0 THEN "Unknown" ELSE RestroomName(rows[1].restroomId)

\* variant: an audit append that throws is swallowed
PostResolve_swallow(s, incidentId, fsOk) ==
  LET ep == "POST /incidents/resolve" IN
  /\ UNCHANGED <<env, es, zone, clientLogs, sseClients, streams, outbox, inflight, sessions, checks, now, emails, clientIncidents>>
  /\ IF ~isAuthenticated(s)
       THEN /\ resp' = Response(ep, s, 401)
            /\ UNCHANGED <<incidents, reports, broadcasts>>
     ELSE IF ~isAdmin(s)
       THEN /\ resp' = Response(ep, s, 403)
            /\ UNCHANGED <<incidents, reports, broadcasts>>
     ELSE IF incidentId = NULL
       THEN /\ resp' = Response(ep, s, 400)
            /\ UNCHANGED <<incidents, reports, broadcasts>>
     ELSE /\ LogRoom
          /\ incidents' = resolveUpdate(incidentId)
          /\ reports' = IF fsOk
                          THEN appendReportRow(ReportRow("Resolved",
                                 resolvedRestroom(incidentId), "Admin", ""))
                          ELSE reports
          /\ broadcasts' = Append(broadcasts, "incident-resolved")
          /\ resp' = Did(Broadcast(Response(ep, s, 200)),
                         <<"update">> \o (IF fsOk THEN <<"audit">> ELSE <<>>)
                           \o <<"broadcast">>)

PostResolve(s, incidentId, fsOk) ==
  LET ep == "POST /incidents/resolve" IN
  /\ UNCHANGED <<env, es, zone, clientLogs, sseClients, streams, outbox, inflight, sessions, checks, now, emails, clientIncidents>>
  /\ IF ~isAuthenticated(s)
       THEN /\ resp' = Response(ep, s, 401)
            /\ UNCHANGED <<incidents, reports, broadcasts>>
     ELSE IF ~isAdmin(s)
       THEN /\ resp' = Response(ep, s, 403)
            /\ UNCHANGED <<incidents, reports, broadcasts>>
     ELSE IF incidentId = NULL
       THEN /\ resp' = Response(ep, s, 400)
            /\ UNCHANGED <<incidents, reports, broadcasts>>
     ELSE /\ LogRoom
          /\ incidents' = resolveUpdate(incidentId)
          /\ IF fsOk
               THEN /\ reports' = appendReportRow(ReportRow("Resolved",
                                     resolvedRestroom(incidentId), "Admin", ""))
                    /\ broadcasts' = Append(broadcasts, "incident-resolved")
                    /\ resp' = Did(Broadcast(Response(ep, s, 200)),
                                   <<"update", "audit", "broadcast">>)
               ELSE \* appendReportRow throws: caught, 500, no broadcast
                    /\ resp' = Did(Response(ep, s, 500), <<"update">>)
                    /\ UNCHANGED <<reports, broadcasts>>

(***************************************************************************)
(* Session routes.                                                         *)
(***************************************************************************)
RECURSIVE trimStart(_)
trimStart(chars) ==
  IF chars # <<>> /\ Head(chars) = " " THEN trimStart(Tail(chars)) ELSE chars

RECURSIVE trimEnd(_)
trimEnd(chars) ==
  IF chars # <<>> /\ chars[Len(chars)] = " "
    THEN trimEnd(SubSeq(chars, 1, Len(chars) - 1))
    ELSE chars

\* String.prototype.trim
trim(chars) == trimEnd(trimStart(chars))

\* variant: a value of any type is taken for the password
password_anyType(raw) == trim(raw.chars)

\* (typeof raw === 'string' ? raw : '').trim()
password(raw) == trim(IF raw.isString THEN raw.chars ELSE <<>>)

\* (process.env.USER_PASSWORD || process.env.ADMIN_PASSWORD || '').trim()
userPassword ==
  trim(IF env.USER_PASSWORD # <<>> THEN env.USER_PASSWORD ELSE env.ADMIN_PASSWORD)

\* (process.env.ADMIN_PASSWORD || '').trim()
adminPassword == trim(env.ADMIN_PASSWORD)

\* POST /auth/login on the request's copy of the session
authLogin(sess, raw) ==
  IF userPassword = <<>>
    THEN [status |-> 500, session |-> sess]
  ELSE IF password(raw) # <<>> /\ password(raw) = userPassword
    THEN [status |-> 200, session |-> [sess EXCEPT !.isAuthenticated = TRUE]]
  ELSE [status |-> 401, session |-> sess]

PostAuthLogin(s, raw) ==
  LET out == authLogin(sessions[s], raw) IN
  /\ UNCHANGED <<env, es, zone, clientLogs, sseClients, streams, outbox, inflight, store, now, effects, clientIncidents>>
  /\ sessions' = [sessions EXCEPT ![s] = out.session]
  /\ resp' = Response("POST /auth/login", s, out.status)

\* both flags cleared, session destroyed, cookie cleared: the next request of
\* this browser starts from a new session
PostAuthLogout(s) ==
  /\ UNCHANGED <<env, es, zone, clientLogs, sseClients, streams, outbox, inflight, store, now, effects, clientIncidents>>
  /\ sessions' = [sessions EXCEPT ![s] = NewSession]
  /\ resp' = Response("POST /auth/logout", s, 200)

\* variant: the admin login asks for a staff login first
PostAdminLogin_needsAuth(s, raw) ==
  LET ep == "POST /admin/login" IN
  /\ UNCHANGED <<env, es, zone, clientLogs, sseClients, streams, outbox, inflight, store, now, effects, clientIncidents>>
  /\ IF adminPassword = <<>>
       THEN /\ resp' = Response(ep, s, 500)
            /\ UNCHANGED sessions
     ELSE IF sessions[s].isAuthenticated /\ password(raw) # <<>> /\ password(raw) = adminPassword
       THEN /\ sessions' = [sessions EXCEPT ![s].isAdmin = TRUE]
            /\ resp' = Response(ep, s, 200)
     ELSE /\ resp' = Response(ep, s, 401)
          /\ UNCHANGED sessions

\* POST /admin/login on the request's copy of the session
adminLogin(sess, raw) ==
  IF adminPassword = <<>>
    THEN [status |-> 500, session |-> sess]
  ELSE IF password(raw) # <<>> /\ password(raw) = adminPassword
    THEN [status |-> 200, session |-> [sess EXCEPT !.isAdmin = TRUE]]
  ELSE [status |-> 401, session |-> sess]

PostAdminLogin(s, raw) ==
  LET out == adminLogin(sessions[s], raw) IN
  /\ UNCHANGED <<env, es, zone, clientLogs, sseClients, streams, outbox, inflight, store, now, effects, clientIncidents>>
  /\ sessions' = [sessions EXCEPT ![s] = out.session]
  /\ resp' = Response("POST /admin/login", s, out.status)

\* variant: the admin logout clears the whole session
PostAdminLogout_clearsAll(s) ==
  /\ UNCHANGED <<env, es, zone, clientLogs, sseClients, streams, outbox, inflight, store, now, effects, clientIncidents>>
  /\ sessions' = [sessions EXCEPT ![s] = [isAuthenticated |-> FALSE, isAdmin |-> FALSE]]
  /\ resp' = Response("POST /admin/logout", s, 200)

PostAdminLogout(s) ==
  /\ UNCHANGED <<env, es, zone, clientLogs, sseClients, streams, outbox, inflight, store, now, effects, clientIncidents>>
  /\ sessions' = [sessions EXCEPT ![s].isAdmin = FALSE]
  /\ resp' = Response("POST /admin/logout", s, 200)

\* GET /health, /auth/status, /admin/status: no guard, nothing changes
GetOpen(s, ep) ==
  /\ UNCHANGED <<env, es, zone, clientLogs, sseClients, streams, outbox, inflight, sessions, store, now, effects, clientIncidents>>
  /\ resp' = Response(ep, s, 200)

\* variant: the close handler leaves the registry alone
SseClose_keep(l) ==
  /\ streams[l] \in {"open", "stalled", "broken"}
  /\ streams' = [streams EXCEPT ![l] = "closed"]
  /\ UNCHANGED <<env, es, zone, clientLogs, sseClients, outbox, inflight, sessions, store, now, effects,
                 clientIncidents, resp>>

\* req.on('close'): const i = sseClients.indexOf(res); if (i !== -1) sseClients.splice(i, 1)
SseClose(l) ==
  /\ streams[l] \in {"open", "stalled", "broken"}
  /\ streams' = [streams EXCEPT ![l] = "closed"]
  /\ sseClients' = SelectSeq(sseClients, LAMBDA c : c # l)
  /\ UNCHANGED <<env, es, zone, clientLogs, outbox, inflight, sessions, store, now, effects, clientIncidents, resp>>

\* the peer stops reading: writes to the stream are buffered from now on
SseStall(l) ==
  /\ streams[l] = "open"
  /\ streams' = [streams EXCEPT ![l] = "stalled"]
  /\ UNCHANGED <<env, es, zone, clientLogs, sseClients, outbox, inflight, sessions, store, now, effects,
                 clientIncidents, resp>>

\* the stream fails and its close handler has not run yet: res.write throws
SseBreak(l) ==
  /\ streams[l] \in {"open", "stalled"}
  /\ streams' = [streams EXCEPT ![l] = "broken"]
  /\ UNCHANGED <<env, es, zone, clientLogs, sseClients, outbox, inflight, sessions, store, now, effects,
                 clientIncidents, resp>>

\* GET /events: no guard; headers flushed (200), the response joins the
\* registry; every request is a connection that was not open before
GetEvents(s, l) ==
  /\ streams[l] \in {"none", "closed"}
  /\ sseClients' = Append(sseClients, l)
  /\ streams' = [streams EXCEPT ![l] = "open"]
  /\ UNCHANGED <<env, es, zone, clientLogs, outbox, inflight, sessions, store, now, effects, clientIncidents>>
  /\ resp' = Response("GET /events", s, 200)

\* GET /restrooms, /custodians, /checks, /incidents
GetGuarded(s, ep) ==
  /\ UNCHANGED <<env, es, zone, clientLogs, sseClients, streams, outbox, inflight, sessions, store, now, effects, clientIncidents>>
  /\ resp' = Response(ep, s, IF isAuthenticated(s) THEN 200 ELSE 401)

(***************************************************************************)
(* React client (src/App.jsx).                                             *)
(***************************************************************************)
\* GET /incidents: SELECT i.*, cu.name as custodian, r.name as restroom ...
getIncidents ==
  [k \in DOMAIN incidents |->
     [id |-> incidents[k].id, restroom |-> RestroomName(incidents[k].restroomId),
      pending |-> incidents[k].pending]]

\* ORDER BY timestamp DESC: the rows newer than a row come before it, the
\* rows older after it, rows of one timestamp in the order of insertion
RECURSIVE OrderByTimestampDesc(_)
OrderByTimestampDesc(rows) ==
  IF Len(rows) <= 1 THEN rows
  ELSE LET at == rows[(Len(rows) + 1) \div 2].timestamp
       IN OrderByTimestampDesc(SelectSeq(rows, LAMBDA c : c.timestamp > at))
            \o SelectSeq(rows, LAMBDA c : c.timestamp = at)
            \o OrderByTimestampDesc(SelectSeq(rows, LAMBDA c : c.timestamp < at))

\* the number of rows GET /checks returns at most
LIMIT == 100

\* GET /checks: SELECT c.*, cu.name as custodian, r.name as restroom ...
\* ORDER BY c.timestamp DESC LIMIT 100
getChecks ==
  LET sorted == OrderByTimestampDesc(checks)
      rows == IF Len(sorted) > LIMIT THEN SubSeq(sorted, 1, LIMIT) ELSE sorted
  IN [k \in DOMAIN rows |->
        [id |-> rows[k].id, custodian |-> CustodianName(rows[k].custodianId),
         restroom |-> RestroomName(rows[k].restroomId),
         timestamp |-> rows[k].timestamp]]

\* loadData: on success setLogs(checksData) and setIncidents(incidentsData);
\* on 401 the data is kept
LoadData(s) ==
  /\ UNCHANGED <<env, es, zone, sseClients, streams, outbox, inflight, sessions, store, now, effects>>
  /\ IF isAuthenticated(s)
       THEN /\ clientLogs' = getChecks
            /\ clientIncidents' = getIncidents
            /\ resp' = Response("GET /incidents", s, 200)
       ELSE /\ resp' = Response("GET /incidents", s, 401)
            /\ UNCHANGED <<clientIncidents, clientLogs>>

\* logs.reduce((latest, current) =>
\*   new Date(current.timestamp) > new Date(latest.timestamp) ? current : latest)
\* over a non-empty sequence: the first of the logs of the greatest timestamp
reduceLatest(logs) ==
  logs[CHOOSE k \in DOMAIN logs :
         /\ \A j \in DOMAIN logs : logs[j].timestamp <= logs[k].timestamp
         /\ \A j \in 1..(k - 1) : logs[j].timestamp < logs[k].timestamp]

\* logs.filter(l => l.restroom === restroom.name)
logsForRestroom(restroomName) ==
  SelectSeq(clientLogs, LAMBDA l : l.restroom = restroomName)

\* times[restroom.name]: null (NULL) when the client holds no log of the restroom
lastCheckTimes(restroomName) ==
  LET logs == logsForRestroom(restroomName)
  IN IF Len(logs) = 0 THEN NULL
     ELSE reduceLatest(logs).timestamp

\* by[restroom.name] = lastLog.custodian || null: null is the empty name
lastCheckBy(restroomName) ==
  LET logs == logsForRestroom(restroomName)
  IN IF Len(logs) = 0 THEN Missing
     ELSE reduceLatest(logs).custodian

hasActiveIncident(restroomName) ==
  \E k \in DOMAIN clientIncidents :
     clientIncidents[k].restroom = restroomName /\ clientIncidents[k].pending = 1

\* handleLogCheck: advisory pre-check on the client's data, then POST /checks
HandleLogCheck(s, custodianId, restroomId, fsOk) ==
  /\ ~hasActiveIncident(RestroomName(restroomId))
  /\ PostChecks(s, custodianId, restroomId, fsOk)

IncidentIdInputs == RowIds(incidents) \cup {NULL, UnknownId}

(***************************************************************************)
(* The server under arbitrary requests of one browser on the mutating and  *)
(* session routes; writes to the audit file succeed.                       *)
(***************************************************************************)
Next ==
  \/ Tick
  \/ \E c \in CustodianInputs, r \in RestroomInputs : PostChecks("s1", c, r, TRUE)
  \/ \E c \in CustodianInputs, r \in RestroomInputs, d \in DescriptionInputs :
       PostIncidents("s1", c, r, d, TRUE)
  \/ \E i \in IncidentIdInputs : PostResolve("s1", i, TRUE)
  \/ \E p \in TriedPasswords : PostAuthLogin("s1", p)
  \/ PostAuthLogout("s1")
  \/ \E p \in TriedPasswords : PostAdminLogin("s1", p)
  \/ PostAdminLogout("s1")

Spec == Init /\ [][Next]_vars

(***************************************************************************)
(* Every route, requested by two browsers; the store requests name one     *)
(* custodian and one restroom.                                             *)
(***************************************************************************)
NextGuard ==
  \/ Tick
  \/ \E s \in Sessions : PostChecks(s, "joel", "g-wing", TRUE)
  \/ \E s \in Sessions : PostIncidents(s, "joel", "g-wing", "clogged", TRUE)
  \/ \E s \in Sessions, i \in RowIds(incidents) : PostResolve(s, i, TRUE)
  \/ \E s \in Sessions, p \in TriedPasswords : PostAuthLogin(s, p)
  \/ \E s \in Sessions : PostAuthLogout(s)
  \/ \E s \in Sessions, p \in TriedPasswords : PostAdminLogin(s, p)
  \/ \E s \in Sessions : PostAdminLogout(s)
  \/ \E s \in Sessions, ep \in OpenReadEndpoints : GetOpen(s, ep)
  \/ \E s \in Sessions : GetEvents(s, "l1")
  \/ \E s \in Sessions, ep \in ReadEndpoints : GetGuarded(s, ep)

SpecGuard == Init /\ [][NextGuard]_vars

(***************************************************************************)
(* The React client of one browser: it loads the data, pre-checks on what  *)
(* it loaded and posts checks, while incidents are reported and resolved.  *)
(***************************************************************************)
NextClient ==
  \/ Tick
  \/ PostAuthLogin("s1", StaffPw)
  \/ PostAdminLogin("s1", AdminPw)
  \/ LoadData("s1")
  \/ \E c \in Custodians, r \in Restrooms : HandleLogCheck("s1", c, r, TRUE)
  \/ \E c \in Custodians, r \in Restrooms : PostIncidents("s1", c, r, "clogged", TRUE)
  \/ \E i \in RowIds(incidents) : PostResolve("s1", i, TRUE)

SpecClient == Init /\ [][NextClient]_vars

(***************************************************************************)
(* The session routes with requests in flight.  express-session loads the  *)
(* session of a request from the store (store.get), the handler works on   *)
(* that copy, and when the response ends a copy the handler changed is     *)
(* written back whole (store.set, INSERT OR REPLACE); an unchanged copy is *)
(* only touched, which creates no row (resave: false).  destroy deletes    *)
(* the row.  A missing row reads as a new session, both flags unset.       *)
(***************************************************************************)
SessionEndpoints ==
  {"POST /auth/login", "POST /auth/logout", "POST /admin/login", "POST /admin/logout"}

\* the handler of a session route on the request's copy of the session
sessionHandler(ep, sess, raw) ==
  CASE ep = "POST /auth/login" -> authLogin(sess, raw)
    [] ep = "POST /admin/login" -> adminLogin(sess, raw)
    [] ep = "POST /admin/logout" ->
         [status |-> 200, session |-> [sess EXCEPT !.isAdmin = FALSE]]
    [] OTHER -> [status |-> 200, session |-> NewSession]

\* session middleware: store.get answered, the request holds its copy
SessionLoad(q, s, ep, raw) ==
  /\ inflight[q] = Idle
  /\ inflight' = [inflight EXCEPT ![q] =
                    [ep |-> ep, sid |-> s, session |-> sessions[s], raw |-> raw]]
  /\ UNCHANGED <<env, es, zone, clientLogs, sseClients, streams, outbox, sessions, store, now, effects, clientIncidents, resp>>

\* the handler runs and the response ends: destroy, store.set or touch
SessionEnd(q) ==
  LET r == inflight[q]
      out == sessionHandler(r.ep, r.session, r.raw)
  IN /\ r # Idle
     /\ sessions' =
          IF r.ep = "POST /auth/logout"
            THEN [sessions EXCEPT ![r.sid] = NewSession]
          ELSE IF out.session # r.session
            THEN [sessions EXCEPT ![r.sid] = out.session]
          ELSE sessions
     /\ resp' = Response(r.ep, r.sid, out.status)
     /\ inflight' = [inflight EXCEPT ![q] = Idle]
     /\ UNCHANGED <<env, es, zone, clientLogs, sseClients, streams, outbox, store, now, effects, clientIncidents>>

NextSession ==
  \/ \E q \in Requests, s \in Sessions, ep \in SessionEndpoints,
        raw \in {StaffPw, AdminPw, Str(<<"w">>)} : SessionLoad(q, s, ep, raw)
  \/ \E q \in Requests : SessionEnd(q)

SpecSession == Init /\ [][NextSession]_vars

(***************************************************************************)
(* Mail and the monthly task.                                              *)
(***************************************************************************)
\* fs.unlinkSync(filePath)
unlink(files, filePath) == [p \in DOMAIN files \ {filePath} |-> files[p]]

\* variant: the task takes the month of the run
prevMonth_same(t) == MonthOf(t)

\* new Date(now.getFullYear(), now.getMonth() - 1, 1).toISOString().slice(0, 7)
prevMonth(t) == MonthOf(t) - 1

MonthlyMail(YYYYMM) == [kind |-> "monthly", month |-> YYYYMM]

\* the outbox without its i-th call
Settled(i) == SubSeq(outbox, 1, i - 1) \o SubSeq(outbox, i + 1, Len(outbox))

\* variant: a failed incident email is sent again, a failed monthly report
\* is deleted all the same
MailSettles_careless(i, ok) ==
  /\ i \in DOMAIN outbox
  /\ IF outbox[i].kind = "incident"
       THEN /\ outbox' = IF ok THEN Settled(i) ELSE Append(Settled(i), IncidentMail)
            /\ emails' = IF ok THEN emails ELSE emails + 1
            /\ UNCHANGED reports
       ELSE /\ outbox' = Settled(i)
            /\ reports' = unlink(reports, outbox[i].month)
            /\ UNCHANGED emails
  /\ UNCHANGED <<env, es, zone, clientLogs, sseClients, streams, inflight, sessions, store, now, broadcasts,
                 clientIncidents, resp>>

\* variant: a failed incident email takes the newest incident back
MailSettles_undo(i, ok) ==
  /\ i \in DOMAIN outbox
  /\ outbox' = Settled(i)
  /\ reports' = IF outbox[i].kind = "monthly" /\ ok
                  THEN unlink(reports, outbox[i].month)
                  ELSE reports
  /\ incidents' = IF outbox[i].kind = "incident" /\ ~ok /\ Len(incidents) > 0
                    THEN SubSeq(incidents, 1, Len(incidents) - 1)
                    ELSE incidents
  /\ UNCHANGED <<env, es, zone, clientLogs, sseClients, streams, inflight, sessions, checks, now, broadcasts,
                 emails, clientIncidents, resp>>

\* the promise of a sendMail call settles.  Incident email: .then and .catch
\* only log.  Monthly report: .then unlinks the file that was sent (an unlink
\* that throws lands in .catch), .catch only logs.
MailSettles(i, ok) ==
  /\ i \in DOMAIN outbox
  /\ outbox' = Settled(i)
  /\ reports' = IF outbox[i].kind = "monthly" /\ ok
                  THEN unlink(reports, outbox[i].month)
                  ELSE reports
  /\ UNCHANGED <<env, es, zone, clientLogs, sseClients, streams, inflight, sessions, store, now, broadcasts,
                 emails, clientIncidents, resp>>

\* variant: the file is deleted as soon as the email is handed over
sendMonthlyReportAndDelete_eager(t) ==
  LET YYYYMM == prevMonth(t) IN
  IF YYYYMM \notin DOMAIN reports
    THEN UNCHANGED <<reports, outbox>>
  ELSE IF ~mailConfigured
    THEN reports' = unlink(reports, YYYYMM) /\ UNCHANGED outbox
  ELSE /\ outbox' = Append(outbox, MonthlyMail(YYYYMM))
       /\ reports' = unlink(reports, YYYYMM)

\* sendMonthlyReportAndDelete, run at time t
sendMonthlyReportAndDelete(t) ==
  LET YYYYMM == prevMonth(t) IN
  IF YYYYMM \notin DOMAIN reports
    THEN UNCHANGED <<reports, outbox>>
  ELSE IF ~mailConfigured
    THEN reports' = unlink(reports, YYYYMM) /\ UNCHANGED outbox
  ELSE /\ outbox' = Append(outbox, MonthlyMail(YYYYMM))
       /\ UNCHANGED reports

\* cron.schedule('5 0 1 * *', sendMonthlyReportAndDelete): the clock passes
\* five past midnight of the first day of a month and the task runs
MonthlyCron ==
  /\ now % 2 = 0
  /\ now < 2 * MaxMonth + 1
  /\ now' = now + 1
  /\ sendMonthlyReportAndDelete(now')
  /\ resp' = NoResp
  /\ UNCHANGED <<env, es, zone, clientLogs, sseClients, streams, inflight, sessions, store, broadcasts, emails,
                 clientIncidents>>

\* the clock advances and no task runs: within a month, into the next month,
\* or past the time of the task while the server is down
PassTime ==
  /\ now < 2 * MaxMonth + 1
  /\ now' = now + 1
  /\ resp' = NoResp
  /\ UNCHANGED <<env, es, zone, clientLogs, sseClients, streams, outbox, inflight, sessions, store, reports,
                 broadcasts, emails, clientIncidents>>

\* the mail settings an installation may have
MailConfigs ==
  {[USER_PASSWORD |-> <<"s">>, ADMIN_PASSWORD |-> <<"a">>, SMTP |-> smtp, ADMIN_EMAIL |-> to] :
     smtp \in BOOLEAN, to \in BOOLEAN}

InitMail ==
  /\ es = NoEs
  /\ zone = NoZone
  /\ env \in MailConfigs
  /\ sessions = [s \in Sessions |->
                   [isAuthenticated |-> s = "s1", isAdmin |-> s = "s1"]]
  /\ checks = <<>>
  /\ incidents = <<>>
  /\ now = 0
  /\ reports = <<>>
  /\ broadcasts = <<>>
  /\ emails = 0
  /\ clientIncidents = <<>>
  /\ clientLogs = <<>>
  /\ resp = NoResp
  /\ inflight = [q \in Requests |-> Idle]
  /\ sseClients = <<>>
  /\ streams = [l \in Listeners |-> "none"]
  /\ outbox = <<>>

NextMail ==
  \/ \E r \in Restrooms : PostChecks("s1", "joel", r, TRUE)
  \/ PostIncidents("s1", "joel", "g-wing", "clogged", TRUE)
  \/ \E i \in RowIds(incidents) : PostResolve("s1", i, TRUE)
  \/ \E i \in DOMAIN outbox, ok \in BOOLEAN : MailSettles(i, ok)
  \/ MonthlyCron
  \/ PassTime

SpecMail == InitMail /\ [][NextMail]_vars

(***************************************************************************)
(* Event streams that connect, stall, break and close while one            *)
(* authenticated browser logs checks and reports incidents.                *)
(***************************************************************************)
NextSSE ==
  \/ PostAuthLogin("s1", StaffPw)
  \/ \E s \in Sessions, l \in Listeners : GetEvents(s, l)
  \/ \E l \in Listeners : SseClose(l)
  \/ \E l \in Listeners : SseStall(l)
  \/ \E l \in Listeners : SseBreak(l)
  \/ \E r \in Restrooms : PostChecks("s1", "joel", r, TRUE)
  \/ \E r \in Restrooms : PostIncidents("s1", "joel", r, "clogged", TRUE)
  \/ Tick

SpecSSE == Init /\ [][NextSSE]_vars

(***************************************************************************)
(* The session routes under every configuration of the two secrets.        *)
(***************************************************************************)
InitAuth ==
  /\ es = NoEs
  /\ zone = NoZone
  /\ env \in EnvConfigs
  /\ sessions = [s \in Sessions |-> [isAuthenticated |-> FALSE, isAdmin |-> FALSE]]
  /\ checks = <<>>
  /\ incidents = <<>>
  /\ now = 0
  /\ reports = <<>>
  /\ broadcasts = <<>>
  /\ emails = 0
  /\ clientIncidents = <<>>
  /\ clientLogs = <<>>
  /\ resp = NoResp
  /\ inflight = [q \in Requests |-> Idle]
  /\ sseClients = <<>>
  /\ streams = [l \in Listeners |-> "none"]
  /\ outbox = <<>>

NextAuth ==
  \/ \E s \in Sessions, p \in PasswordInputs : PostAuthLogin(s, p)
  \/ \E s \in Sessions : PostAuthLogout(s)
  \/ \E s \in Sessions, p \in PasswordInputs : PostAdminLogin(s, p)
  \/ \E s \in Sessions : PostAdminLogout(s)

SpecAuth == InitAuth /\ [][NextAuth]_vars


(***************************************************************************)
(* Properties of the gate, of the incident lifecycle and of the guards.    *)
(***************************************************************************)

\* C1: a POST /checks that passes the guard and the field validation is
\* refused by the gate (403) exactly when an incident row of that restroom
\* with pending = 1 exists; resolved incidents of the restroom and incidents
\* of other restrooms do not block it.
C1_GateIffPendingIncident ==
  [][\A s \in Sessions, c \in CustodianInputs, r \in RestroomInputs :
       (/\ resp'.ep = "POST /checks"
        /\ sessions[s].isAuthenticated /\ c # Missing /\ r # Missing
        /\ PostChecks(s, c, r, TRUE))
         => ((resp'.status = 403)
               <=> (\E k \in DOMAIN incidents :
                      incidents[k].restroomId = r /\ incidents[k].pending = 1))]_vars

\* a check was accepted for a restroom while the other restroom has a
\* pending incident
C1_Witness ==
  /\ resp.ep = "POST /checks" /\ resp.status = 201
  /\ \E c \in DOMAIN checks :
       /\ checks[c].timestamp = now
       /\ \E k \in DOMAIN incidents :
            /\ incidents[k].restroomId # checks[c].restroomId
            /\ incidents[k].pending = 1
            /\ incidents[k].timestamp <= now

\* C2: whatever the client believed when it sent the request, in the step
\* that inserts a Check row for restroom R the incidents table holds no row
\* with restroomId = R and pending = 1.
C2_NoInsertWhilePending ==
  [][\A k \in DOMAIN checks' :
       k \notin DOMAIN checks
         => ~\E j \in DOMAIN incidents :
               incidents[j].restroomId = checks'[k].restroomId /\ incidents[j].pending = 1]_vars

\* the client's data shows no incident, its pre-check let the request go, and
\* the server refused it for a restroom that was checked before the incident
C2_Witness ==
  /\ resp.ep = "POST /checks" /\ resp.status = 403
  /\ clientIncidents = <<>>
  /\ clientLogs = <<>>
  /\ \E c \in DOMAIN checks, k \in DOMAIN incidents :
       /\ incidents[k].restroomId = checks[c].restroomId
       /\ incidents[k].pending = 1
       /\ checks[c].timestamp <= incidents[k].timestamp

\* C3: a POST /checks that passes the guard and the field validation for a
\* restroom with a pending incident answers 403 and changes neither the
\* store nor the audit files, the broadcasts, the emails or the session.
C3_BlockedCheckChangesNothing ==
  [][\A s \in Sessions, c \in CustodianInputs, r \in RestroomInputs :
       (/\ resp'.ep = "POST /checks"
        /\ sessions[s].isAuthenticated /\ c # Missing /\ r # Missing
        /\ \E k \in DOMAIN incidents : incidents[k].restroomId = r /\ incidents[k].pending = 1
        /\ PostChecks(s, c, r, TRUE))
         => (/\ resp'.status = 403
             /\ UNCHANGED <<checks, incidents, reports, broadcasts, emails, sessions>>)]_vars

C3_Witness ==
  /\ resp.ep = "POST /checks" /\ resp.status = 403
  /\ checks = <<>>
  /\ \E k \in DOMAIN incidents : incidents[k].pending = 1 /\ incidents[k].timestamp < now

\* C4: no step removes an incident or turns the pending flag of an incident
\* from 0 back to 1, so the flag changes at most once, from 1 to 0.
C4_PendingNeverReopens ==
  [][\A k \in DOMAIN incidents :
       /\ k \in DOMAIN incidents'
       /\ incidents[k].pending = 0 => incidents'[k].pending = 0]_vars

\* a resolved incident was resolved once more and is still resolved
C4_Witness ==
  /\ resp.ep = "POST /incidents/resolve" /\ resp.status = 200
  /\ \E k \in DOMAIN incidents :
       /\ incidents[k].pending = 0
       /\ Len(SelectSeq(broadcasts, LAMBDA e : e = "incident-resolved")) >= 2
       /\ Len(incidents) = 1

\* C5: in every state every incident has pending = 1 exactly when its
\* resolvedAt is null.
C5_PendingIffNoResolvedAt ==
  \A k \in DOMAIN incidents :
     /\ incidents[k].pending \in {0, 1}
     /\ (incidents[k].pending = 1) <=> (incidents[k].resolvedAt = NULL)

C5_Witness ==
  /\ \E k \in DOMAIN incidents :
       incidents[k].pending = 0 /\ incidents[k].resolvedAt > incidents[k].timestamp
  /\ \E k \in DOMAIN incidents : incidents[k].pending = 1 /\ incidents[k].resolvedAt = NULL

\* C6 (as claimed): once an incident is resolved, no later step changes its
\* resolvedAt.
C6_ResolvedAtKept ==
  [][\A k \in DOMAIN incidents :
       incidents[k].pending = 0
         => (k \in DOMAIN incidents' /\ incidents'[k].resolvedAt = incidents[k].resolvedAt)]_vars

\* C7 (as claimed): a resolve request of an authenticated admin session
\* whose incidentId matches no incident row is answered 404.
C7_UnknownIncidentNotFound ==
  [][\A s \in Sessions :
       (/\ resp'.ep = "POST /incidents/resolve"
        /\ sessions[s].isAuthenticated /\ sessions[s].isAdmin
        /\ PostResolve(s, UnknownId, TRUE))
         => resp'.status = 404]_vars

\* C8: a step of POST /incidents leaves the checks table as it was and a
\* step of POST /checks leaves the incidents table as it was, whatever the
\* response.
C8_ReportAndCheckFrames ==
  [][/\ resp'.ep = "POST /incidents" => checks' = checks
     /\ resp'.ep = "POST /checks" => incidents' = incidents]_vars

\* an incident was reported on a restroom that has a check, and the check is
\* still there
C8_Witness ==
  /\ resp.ep = "POST /incidents" /\ resp.status = 201
  /\ \E c \in DOMAIN checks, k \in DOMAIN incidents :
       /\ incidents[k].restroomId = checks[c].restroomId
       /\ incidents[k].lastCheckedAt = checks[c].timestamp
       /\ incidents[k].timestamp = now

\* C9: no step removes or changes a Check row; no step removes an Incident
\* row or changes a field of it other than pending and resolvedAt; a
\* resolve request changes no row but the one whose id it names.
C9_RowsImmutable ==
  [][/\ \A k \in DOMAIN checks : k \in DOMAIN checks' /\ checks'[k] = checks[k]
     /\ \A k \in DOMAIN incidents :
          /\ k \in DOMAIN incidents'
          /\ [incidents'[k] EXCEPT !.pending = 0, !.resolvedAt = NULL]
               = [incidents[k] EXCEPT !.pending = 0, !.resolvedAt = NULL]
     /\ \A s \in Sessions, i \in IncidentIdInputs :
          (resp'.ep = "POST /incidents/resolve" /\ PostResolve(s, i, TRUE))
            => \A k \in DOMAIN incidents :
                 incidents[k].id # i => incidents'[k] = incidents[k]]_vars

\* one of two incidents was resolved in the last step, the other is pending
C9_Witness ==
  /\ resp.ep = "POST /incidents/resolve" /\ resp.status = 200
  /\ Len(incidents) = 2
  /\ \E j, k \in DOMAIN incidents :
       /\ incidents[j].pending = 0 /\ incidents[j].resolvedAt = now
       /\ incidents[k].pending = 1 /\ incidents[k].timestamp < now

\* C10 (as claimed): a request of a session without the authenticated flag
\* is answered 401 by every route but /health, /auth/status, /auth/login,
\* /admin/status and /admin/login.
C10_OnlyFiveOpenRoutes ==
  [][(/\ resp'.ep \notin {"none", "GET /health", "GET /auth/status", "POST /auth/login",
                          "GET /admin/status", "POST /admin/login"}
      /\ ~sessions[resp'.sid].isAuthenticated)
       => resp'.status = 401]_vars

\* C10 (amended): a request of a session without the authenticated flag is
\* answered 401 by every route but /health, /auth/status, /auth/login,
\* /auth/logout, /admin/status, /admin/login, /admin/logout and /events.
C10_GuardedRoutes401 ==
  [][(/\ resp'.ep \notin {"none", "GET /health", "GET /auth/status", "POST /auth/login",
                          "POST /auth/logout", "GET /admin/status", "POST /admin/login",
                          "POST /admin/logout", "GET /events"}
      /\ ~sessions[resp'.sid].isAuthenticated)
       => resp'.status = 401]_vars

\* a session with the admin flag and without the authenticated flag was
\* refused with 401 by the resolve route
C10_Witness ==
  /\ resp.ep = "POST /incidents/resolve" /\ resp.status = 401
  /\ sessions[resp.sid].isAdmin /\ ~sessions[resp.sid].isAuthenticated
  /\ \E k \in DOMAIN incidents : incidents[k].pending = 1


\* C11: an incident row changes only in a step of the resolve route whose
\* session has both flags; the route answers 401 to a session without the
\* authenticated flag (also when it has the admin flag) and 403 to an
\* authenticated session without the admin flag, and changes no incident then.
C11_ResolveNeedsBothFlags ==
  [][/\ (\E k \in DOMAIN incidents : incidents'[k] # incidents[k])
          => (/\ resp'.ep = "POST /incidents/resolve"
              /\ sessions[resp'.sid].isAuthenticated
              /\ sessions[resp'.sid].isAdmin)
     /\ resp'.ep = "POST /incidents/resolve"
          => (/\ ~sessions[resp'.sid].isAuthenticated
                    => (resp'.status = 401 /\ incidents' = incidents)
              /\ (sessions[resp'.sid].isAuthenticated /\ ~sessions[resp'.sid].isAdmin)
                    => (resp'.status = 403 /\ incidents' = incidents))]_vars

\* an authenticated session without the admin flag was refused with 403 while
\* an incident is pending
C11_Witness ==
  /\ resp.ep = "POST /incidents/resolve" /\ resp.status = 403
  /\ sessions[resp.sid].isAuthenticated /\ ~sessions[resp.sid].isAdmin
  /\ \E k \in DOMAIN incidents : incidents[k].pending = 1

\* C12: a request that a guard rejects (a guarded route requested without
\* the authenticated flag, or the resolve route without the admin flag) is
\* answered 401 or 403 and changes no table, no audit file, no broadcast, no
\* email and no session flag.
C12_RejectedRequestChangesNothing ==
  [][(/\ resp'.ep \in ReadEndpoints \cup {"POST /checks", "POST /incidents",
                                          "POST /incidents/resolve"}
      /\ \/ ~sessions[resp'.sid].isAuthenticated
         \/ resp'.ep = "POST /incidents/resolve" /\ ~sessions[resp'.sid].isAdmin)
       => (/\ resp'.status \in {401, 403}
           /\ UNCHANGED <<sessions, checks, incidents, reports, broadcasts, emails>>)]_vars

\* a report was refused with 401 while the other browser is logged in and the
\* store holds a pending incident
C12_Witness ==
  /\ resp.ep = "POST /incidents" /\ resp.status = 401
  /\ ~sessions[resp.sid].isAuthenticated
  /\ \E s \in Sessions : sessions[s].isAuthenticated
  /\ \E k \in DOMAIN incidents : incidents[k].pending = 1

\* C17: a step of the admin logout route clears the admin flag of its
\* session and changes nothing else: not the authenticated flag, not another
\* session, no table, no audit file, no broadcast, no email.
C17_AdminLogoutClearsOnlyAdmin ==
  [][resp'.ep = "POST /admin/logout"
       => (/\ sessions' = [sessions EXCEPT ![resp'.sid].isAdmin = FALSE]
           /\ UNCHANGED <<checks, incidents, reports, broadcasts, emails>>)]_vars

\* an admin logged out of the admin role after resolving an incident and is
\* still authenticated
C17_Witness ==
  /\ resp.ep = "POST /admin/logout" /\ resp.status = 200
  /\ sessions[resp.sid].isAuthenticated /\ ~sessions[resp.sid].isAdmin
  /\ \E k \in DOMAIN incidents : incidents[k].pending = 0


\* C13 (as claimed): login grants the authenticated flag exactly when the
\* supplied password equals the configured staff secret; otherwise it answers
\* 401 and leaves the session as it was; it never changes the admin flag.
C13_LoginIffExactSecret ==
  [][\A s \in Sessions, raw \in PasswordInputs :
       (resp'.ep = "POST /auth/login" /\ PostAuthLogin(s, raw))
         => LET secret == IF env.USER_PASSWORD # <<>>
                            THEN env.USER_PASSWORD ELSE env.ADMIN_PASSWORD
                match == raw.isString /\ secret # <<>> /\ raw.chars = secret
            IN /\ match => (resp'.status = 200 /\ sessions'[s].isAuthenticated)
               /\ ~match => (resp'.status = 401 /\ sessions' = sessions)
               /\ sessions'[s].isAdmin = sessions[s].isAdmin]_vars

\* C13 (amended): login grants the authenticated flag exactly when the
\* supplied password is a string that, with surrounding white space removed,
\* is non-empty and equals the staff secret with surrounding white space
\* removed (USER_PASSWORD, or ADMIN_PASSWORD when USER_PASSWORD is unset);
\* otherwise it leaves the session as it was and answers 401, or 500 when
\* that secret is empty; it never changes the admin flag or another session.
C13_LoginIffTrimmedSecret ==
  [][\A s \in Sessions, raw \in PasswordInputs :
       (resp'.ep = "POST /auth/login" /\ PostAuthLogin(s, raw))
         => LET secret == trim(IF env.USER_PASSWORD # <<>>
                                 THEN env.USER_PASSWORD ELSE env.ADMIN_PASSWORD)
                match == raw.isString /\ secret # <<>> /\ trim(raw.chars) = secret
            IN /\ match => (/\ resp'.status = 200
                            /\ sessions' = [sessions EXCEPT ![s].isAuthenticated = TRUE])
               /\ ~match => (/\ resp'.status = IF secret = <<>> THEN 500 ELSE 401
                             /\ sessions' = sessions)]_vars

\* a password with a trailing blank logged a session in, next to a session
\* that holds only the admin flag
C13_Witness ==
  /\ resp.ep = "POST /auth/login" /\ resp.status = 200
  /\ sessions[resp.sid].isAuthenticated /\ ~sessions[resp.sid].isAdmin
  /\ env.USER_PASSWORD = <<" ", "s">>
  /\ \E s \in Sessions : sessions[s].isAdmin /\ ~sessions[s].isAuthenticated

\* C14: an admin login with the configured admin secret grants the admin
\* flag whether or not the session is authenticated, and no admin login
\* changes the authenticated flag.
C14_AdminLoginIndependent ==
  [][\A s \in Sessions, raw \in PasswordInputs :
       (resp'.ep = "POST /admin/login" /\ PostAdminLogin(s, raw))
         => (/\ sessions'[s].isAuthenticated = sessions[s].isAuthenticated
             /\ (raw.isString /\ raw.chars = env.ADMIN_PASSWORD /\ trim(raw.chars) # <<>>)
                   => (resp'.status = 200 /\ sessions'[s].isAdmin))]_vars

\* a session that never logged in as staff holds the admin flag
C14_Witness ==
  /\ resp.ep = "POST /admin/login" /\ resp.status = 200
  /\ sessions[resp.sid].isAdmin /\ ~sessions[resp.sid].isAuthenticated
  /\ \A s \in Sessions : ~sessions[s].isAuthenticated

\* C15 (as claimed): in every configuration, a password that login accepts
\* is refused by the admin login.
C15_StaffPasswordNoAdmin ==
  [][\A s \in Sessions, raw \in PasswordInputs :
       (/\ resp'.ep = "POST /admin/login"
        /\ userPassword # <<>> /\ password(raw) # <<>> /\ password(raw) = userPassword
        /\ PostAdminLogin(s, raw))
         => (resp'.status # 200 /\ sessions' = sessions)]_vars

\* C16 (as claimed): once a logout of a session has been handled, the stored
\* flags of that session stay false until a login (for authenticated) or an
\* admin login (for admin) of that session succeeds, whatever other requests
\* of the session were in flight during the logout.
C16_LogoutHolds ==
  [][\A s \in Sessions :
       (resp.ep = "POST /auth/logout" /\ resp.sid = s)
         => (/\ sessions'[s].isAuthenticated
                   => (/\ resp'.ep = "POST /auth/login" /\ resp'.sid = s
                       /\ resp'.status = 200)
             /\ sessions'[s].isAdmin
                   => (/\ resp'.ep = "POST /admin/login" /\ resp'.sid = s
                       /\ resp'.status = 200))]_vars

\* C18 (as claimed): a report by an authenticated session whose description
\* is missing, or whose custodianId or restroomId is not a seeded id, is
\* answered 400 and creates no incident, email, audit row or broadcast.
C18_InvalidReportIs400 ==
  [][\A c \in CustodianInputs, r \in RestroomInputs, d \in DescriptionInputs :
       (/\ resp'.ep = "POST /incidents"
        /\ isAuthenticated("s1")
        /\ (d = Missing \/ c \notin Custodians \/ r \notin Restrooms)
        /\ PostIncidents("s1", c, r, d, TRUE))
         => (/\ resp'.status = 400
             /\ UNCHANGED <<incidents, reports, broadcasts, emails>>)]_vars

\* C19 (as claimed): a valid report by an authenticated session on a restroom
\* that already has a pending incident is accepted and adds one more pending
\* incident on that restroom.
C19_SecondReportPersists ==
  [][\A c \in Custodians, r \in Restrooms :
       (/\ resp'.ep = "POST /incidents"
        /\ isAuthenticated("s1")
        /\ Len(activeIncident(r)) > 0
        /\ PostIncidents("s1", c, r, "clogged", TRUE))
         => (/\ resp'.status = 201
             /\ Len(incidents') = Len(incidents) + 1
             /\ incidents'[Len(incidents')].restroomId = r
             /\ incidents'[Len(incidents')].pending = 1
             /\ \A k \in DOMAIN incidents : incidents'[k] = incidents[k])]_vars

\* C20 (as claimed): when every incident reported on a restroom has been
\* resolved, a valid check of that restroom by an authenticated session is
\* accepted and adds a check row.
C20_CheckAfterResolveSucceeds ==
  [][\A c \in Custodians, r \in Restrooms :
       (/\ resp'.ep = "POST /checks"
        /\ isAuthenticated("s1")
        /\ \E k \in DOMAIN incidents : incidents[k].restroomId = r
        /\ \A k \in DOMAIN incidents :
              incidents[k].restroomId = r => incidents[k].pending = 0
        /\ PostChecks("s1", c, r, TRUE))
         => (/\ resp'.status = 201
             /\ checks' = Append(checks, CheckRow(c, r)))]_vars

(***************************************************************************)
(* The status of a restroom.  The database outlives the server process:    *)
(* the server starts on the checks logged before, whose timestamps lie     *)
(* before 0 (-1 stands for null), with the session of the browser an       *)
(* administrator's.                                                        *)
(***************************************************************************)
HistoryRow(t, restroomId) ==
  [id |-> t, custodianId |-> "joel", restroomId |-> restroomId,
   timestamp |-> t, notes |-> ""]

\* one check of restroom r followed by k checks of restroom other, the
\* newest at -2
LongHistory(r, other, k) ==
  [n \in 1..(k + 1) |->
     HistoryRow(n - k - 3, IF n = 1 THEN r ELSE other)]

Histories ==
  {<<>>}
    \cup {<<HistoryRow(-2, r)>> : r \in Restrooms}
    \cup {<<HistoryRow(-3, r[1]), HistoryRow(-2, r[2])>> : r \in Restrooms \X Restrooms}

\* histories that fill the answer of GET /checks, and one row more
LongHistories ==
  {LongHistory("g-wing", "h-wing", k) : k \in {LIMIT - 1, LIMIT}}

InitStatus ==
  /\ es = NoEs
  /\ zone = NoZone
  /\ env = [USER_PASSWORD |-> <<"s">>, ADMIN_PASSWORD |-> <<"a">>,
            SMTP |-> TRUE, ADMIN_EMAIL |-> TRUE]
  /\ sessions = [s \in Sessions |->
                   [isAuthenticated |-> s = "s1", isAdmin |-> s = "s1"]]
  /\ checks \in Histories
  /\ incidents = <<>>
  /\ now = 0
  /\ reports = <<>>
  /\ broadcasts = <<>>
  /\ emails = 0
  /\ clientIncidents = <<>>
  /\ clientLogs = <<>>
  /\ resp = NoResp
  /\ inflight = [q \in Requests |-> Idle]
  /\ sseClients = <<>>
  /\ streams = [l \in Listeners |-> "none"]
  /\ outbox = <<>>

NextStatus ==
  \/ Tick
  \/ LoadData("s1")
  \/ \E r \in Restrooms : PostChecks("s1", "joel", r, TRUE)
  \/ \E r \in Restrooms : PostIncidents("s1", "joel", r, "clogged", TRUE)
  \/ \E i \in RowIds(incidents) : PostResolve("s1", i, TRUE)

SpecStatus == InitStatus /\ [][NextStatus]_vars

\* the client loads its data from a server with a long history of checks
InitLimit ==
  /\ es = NoEs
  /\ zone = NoZone
  /\ env = [USER_PASSWORD |-> <<"s">>, ADMIN_PASSWORD |-> <<"a">>,
            SMTP |-> TRUE, ADMIN_EMAIL |-> TRUE]
  /\ sessions = [s \in Sessions |->
                   [isAuthenticated |-> s = "s1", isAdmin |-> s = "s1"]]
  /\ checks \in LongHistories
  /\ incidents = <<>>
  /\ now = 0
  /\ reports = <<>>
  /\ broadcasts = <<>>
  /\ emails = 0
  /\ clientIncidents = <<>>
  /\ clientLogs = <<>>
  /\ resp = NoResp
  /\ inflight = [q \in Requests |-> Idle]
  /\ sseClients = <<>>
  /\ streams = [l \in Listeners |-> "none"]
  /\ outbox = <<>>

NextLimit ==
  \/ Tick
  \/ LoadData("s1")
  \/ \E r \in Restrooms : PostChecks("s1", "joel", r, TRUE)
  \/ PostIncidents("s1", "joel", "g-wing", "clogged", TRUE)

SpecLimit == InitLimit /\ [][NextLimit]_vars

(***************************************************************************)
(* Effects that fail after the store write.  SMTP credentials and          *)
(* ADMIN_EMAIL are set and the session of the browser is an                *)
(* administrator's.                                                        *)
(***************************************************************************)
InitFail == InitMail /\ env.SMTP /\ env.ADMIN_EMAIL

\* the audit append may throw
NextAudit ==
  \/ Tick
  \/ \E fsOk \in BOOLEAN : PostChecks("s1", "joel", "g-wing", fsOk)
  \/ \E fsOk \in BOOLEAN : PostIncidents("s1", "joel", "g-wing", "clogged", fsOk)
  \/ \E i \in RowIds(incidents), fsOk \in BOOLEAN : PostResolve("s1", i, fsOk)

SpecAudit == InitFail /\ [][NextAudit]_vars

\* the requests of one millisecond: the audit append may throw, the email
\* may not be delivered, a registered event stream may be broken
NextFail ==
  \/ GetEvents("s1", "l1")
  \/ SseBreak("l1")
  \/ \E r \in Restrooms, fsOk \in BOOLEAN : PostChecks("s1", "joel", r, fsOk)
  \/ \E fsOk \in BOOLEAN : PostIncidents("s1", "joel", "g-wing", "clogged", fsOk)
  \/ \E i \in RowIds(incidents), fsOk \in BOOLEAN : PostResolve("s1", i, fsOk)
  \/ \E i \in DOMAIN outbox, ok \in BOOLEAN : MailSettles(i, ok)

SpecFail == InitFail /\ [][NextFail]_vars

\* C21 (as claimed): a step hands an event to broadcastSSE exactly when it
\* inserts a check, inserts an incident or changes an incident, it hands over
\* one event, and the event carries the reason of that change.
C21_OneBroadcastPerMutation ==
  [][LET mutation ==
           IF Len(checks') > Len(checks) THEN "check"
           ELSE IF Len(incidents') > Len(incidents) THEN "incident"
           ELSE IF incidents' # incidents THEN "incident-resolved"
           ELSE "none"
     IN IF mutation = "none"
          THEN broadcasts' = broadcasts
          ELSE broadcasts' = Append(broadcasts, mutation)]_vars

\* C22: the registry holds every connection that is open (stalled or broken
\* included, until its close handler has run) exactly once and no other; a
\* broadcast writes its event at most once to a stream, and only to streams
\* that are in the registry when it runs, so a stream that is closed or not
\* yet connected is written nothing; a request without broadcast writes
\* nothing.
C22_RegistryAndAtMostOnce ==
  [][/\ \A l \in Listeners :
          IF streams'[l] \in {"open", "stalled", "broken"}
            THEN Cardinality({k \in DOMAIN sseClients' : sseClients'[k] = l}) = 1
            ELSE \A k \in DOMAIN sseClients' : sseClients'[k] # l
     /\ IF Len(broadcasts') > Len(broadcasts)
          THEN \A l \in Listeners :
                 /\ Cardinality({k \in DOMAIN resp'.writes : resp'.writes[k] = l}) <= 1
                 /\ streams[l] \in {"none", "closed"}
                       => \A k \in DOMAIN resp'.writes : resp'.writes[k] # l
          ELSE resp' = resp \/ resp'.writes = <<>>]_vars

\* a broadcast wrote to the one open stream while the other stream, which had
\* been connected before, was closed
C22_Witness ==
  /\ Len(broadcasts) > 0
  /\ resp.status = 201
  /\ \E l, m \in Listeners :
       /\ resp.writes = <<l>>
       /\ streams[m] = "closed"
       /\ sseClients = <<l>>

\* C23: in a step that broadcasts, every stream of the registry that takes
\* writes (open or stalled) is written the event, also when a stream earlier
\* in the registry is broken and its write throws, and the request of that
\* step is answered with its success status.
C23_BrokenStreamSkipped ==
  [][Len(broadcasts') > Len(broadcasts)
       => (/\ \A k \in DOMAIN sseClients :
                streams[sseClients[k]] \in {"open", "stalled"}
                  => \E j \in DOMAIN resp'.writes : resp'.writes[j] = sseClients[k]
           /\ resp'.status \in {200, 201})]_vars

\* an incident report was answered 201 and its event was written to the
\* second stream of the registry while the first one was broken
C23_Witness ==
  /\ resp.ep = "POST /incidents" /\ resp.status = 201
  /\ Len(sseClients) = 2
  /\ streams[sseClients[1]] = "broken"
  /\ resp.writes = <<sseClients[2]>>

\* C24: the count of incident emails rises only in the step that inserts an
\* incident, by one, and that step stores the incident as pending, appends
\* its audit row, broadcasts and answers 201 without waiting for the send;
\* when the send fails, nothing but the pending call changes: the incident,
\* the audit file, the broadcasts and the response stay, and no email is
\* sent again.
C24_EmailOnceFailureSwallowed ==
  [][/\ emails' # emails
          => (/\ emails' = emails + 1
              /\ resp'.ep = "POST /incidents" /\ resp'.status = 201
              /\ Len(incidents') = Len(incidents) + 1
              /\ incidents'[Len(incidents')].pending = 1
              /\ outbox' = Append(outbox, [kind |-> "incident", month |-> NULL])
              /\ Len(reports'[MonthOf(now)]) =
                   (IF MonthOf(now) \in DOMAIN reports
                      THEN Len(reports[MonthOf(now)]) ELSE 1) + 1
              /\ broadcasts' = Append(broadcasts, "incident"))
     /\ \A i \in DOMAIN outbox :
          (outbox[i].kind = "incident" /\ MailSettles(i, FALSE))
            => (/\ UNCHANGED <<checks, incidents, reports, broadcasts, emails, resp>>
                /\ Len(outbox') = Len(outbox) - 1)]_vars

\* the one email of a reported incident has settled; the incident is pending
\* and its report is the last answered request
C24_Witness ==
  /\ emails = 1 /\ outbox = <<>>
  /\ resp.ep = "POST /incidents" /\ resp.status = 201
  /\ Len(incidents) = 1 /\ incidents[1].pending = 1
  /\ broadcasts = <<"incident">>

\* C25: a check, incident or resolve request that is answered with success
\* appends one row of its type to the audit file of the current month and
\* leaves the earlier lines of that file and every other file as they were;
\* when the file does not exist yet it is created with the header line
\* Date,Type,Restroom,Custodian,Details as its first line, and the header is
\* never written to a file that exists.
C25_AuditAppendOnly ==
  [][(/\ resp' # resp
      /\ resp'.ep \in {"POST /checks", "POST /incidents", "POST /incidents/resolve"}
      /\ resp'.status \in {200, 201})
       => LET m == MonthOf(now)
              before == IF m \in DOMAIN reports THEN reports[m] ELSE <<REPORT_HEADER>>
          IN /\ DOMAIN reports' = DOMAIN reports \cup {m}
             /\ \A p \in DOMAIN reports : p # m => reports'[p] = reports[p]
             /\ Len(reports'[m]) = Len(before) + 1
             /\ SubSeq(reports'[m], 1, Len(before)) = before
             /\ reports'[m][1] = "Date,Type,Restroom,Custodian,Details"
             /\ reports'[m][Len(before) + 1].type =
                  (IF resp'.ep = "POST /checks" THEN "Check"
                   ELSE IF resp'.ep = "POST /incidents" THEN "Incident"
                   ELSE "Resolved")]_vars

\* the file of the second month holds its header and one row while the file
\* of the first month still holds its header and two rows
C25_Witness ==
  /\ 0 \in DOMAIN reports /\ 1 \in DOMAIN reports
  /\ Len(reports[0]) = 3 /\ Len(reports[1]) = 2
  /\ resp.status = 201

C27_DeleteOnlyAfterSendSuccess ==
  [][(env.SMTP /\ env.ADMIN_EMAIL)
       => (/\ \A m \in DOMAIN reports :
                m \notin DOMAIN reports'
                  => \E i \in DOMAIN outbox :
                       /\ outbox[i] = [kind |-> "monthly", month |-> m]
                       /\ MailSettles(i, TRUE)
           /\ MonthlyCron => reports' = reports
           /\ \A i \in DOMAIN outbox :
                (outbox[i].kind = "monthly" /\ MailSettles(i, FALSE))
                  => reports' = reports)]_vars

\* with mail configured, the file of the first month, which had rows, is
\* gone in the second month and no send is pending
C27_Witness ==
  /\ env.SMTP /\ env.ADMIN_EMAIL
  /\ MonthOf(now) = 1
  /\ reports = <<>> /\ outbox = <<>>
  /\ broadcasts = <<"check">>

\* C28: when SMTP credentials or ADMIN_EMAIL are missing and the file of the
\* previous month exists, a run of the monthly task deletes that file, leaves
\* the other files alone and hands no email to the transport.
C28_UnconfiguredDeletesWithoutSend ==
  [][(/\ ~(env.SMTP /\ env.ADMIN_EMAIL)
      /\ (MonthOf(now + 1) - 1) \in DOMAIN reports
      /\ MonthlyCron)
       => (/\ DOMAIN reports' = DOMAIN reports \ {MonthOf(now + 1) - 1}
           /\ \A m \in DOMAIN reports' : reports'[m] = reports[m]
           /\ UNCHANGED <<outbox, emails>>)]_vars

\* SMTP credentials are set and ADMIN_EMAIL is not: the file of the first
\* month, which had a row, is gone after the run and nothing was sent
C28_Witness ==
  /\ env.SMTP /\ ~env.ADMIN_EMAIL
  /\ now = 3
  /\ reports = <<>> /\ outbox = <<>> /\ emails = 0
  /\ broadcasts = <<"check">>

\* C29: the row a report inserts carries as lastCheckedAt the greatest
\* timestamp of the checks of its restroom at that moment, null when there
\* are none, and as lastCheckedBy the custodian of that check; no later step
\* changes the lastCheckedAt of a stored incident.
C29_SnapshotWithCustodian ==
  [][/\ Len(incidents') = Len(incidents) + 1
          => LET row == incidents'[Len(incidents')]
                 rows == {k \in DOMAIN checks : checks[k].restroomId = row.restroomId}
             IN /\ IF rows = {} THEN row.lastCheckedAt = NULL
                   ELSE \E k \in rows :
                          /\ \A j \in rows : checks[j].timestamp <= checks[k].timestamp
                          /\ row.lastCheckedAt = checks[k].timestamp
                /\ "lastCheckedBy" \in DOMAIN row
                /\ \A k \in rows :
                     checks[k].timestamp = row.lastCheckedAt
                       => row.lastCheckedBy = CustodianName(checks[k].custodianId)
     /\ \A k \in DOMAIN incidents :
          incidents'[k].lastCheckedAt = incidents[k].lastCheckedAt]_vars

\* C29 as amended: the row a report inserts carries as lastCheckedAt the
\* greatest timestamp of the checks of its restroom at that moment, null
\* when there are none, and no later step changes it; the custodian of that
\* check is not stored in the row.
C29_SnapshotTimestampOnly ==
  [][/\ Len(incidents') = Len(incidents) + 1
          => LET row == incidents'[Len(incidents')]
                 rows == {k \in DOMAIN checks : checks[k].restroomId = row.restroomId}
             IN /\ IF rows = {} THEN row.lastCheckedAt = NULL
                   ELSE \E k \in rows :
                          /\ \A j \in rows : checks[j].timestamp <= checks[k].timestamp
                          /\ row.lastCheckedAt = checks[k].timestamp
                /\ "lastCheckedBy" \notin DOMAIN row
     /\ \A k \in DOMAIN incidents :
          incidents'[k].lastCheckedAt = incidents[k].lastCheckedAt]_vars

\* an incident of g-wing, reported after the checks of g-wing at -3 and -2,
\* keeps -2 once a check of g-wing logged after it is stored
C29_Witness ==
  /\ Len(checks) = 3
  /\ \A k \in DOMAIN checks : checks[k].restroomId = "g-wing"
  /\ checks[3].timestamp >= 0
  /\ Len(incidents) = 1
  /\ incidents[1].restroomId = "g-wing"
  /\ incidents[1].lastCheckedAt = -2
  /\ incidents[1].timestamp <= checks[3].timestamp

\* C30: after the client has loaded its data, the status it shows for every
\* restroom is the one of the complete store: the time and the custodian of
\* the latest of all checks of the restroom, none when it has no check, and
\* an active incident exactly when a pending incident of the restroom exists.
C30_StatusFromCompleteStore ==
  [][(resp'.ep = "GET /incidents" /\ resp'.status = 200 /\ LoadData("s1"))
       => \A r \in Restrooms :
            LET name == RestroomName(r)
                rows == {k \in DOMAIN checks : checks[k].restroomId = r}
            IN /\ IF rows = {}
                    THEN lastCheckTimes(name)' = NULL /\ lastCheckBy(name)' = ""
                    ELSE \E k \in rows :
                           /\ \A j \in rows : checks[j].timestamp <= checks[k].timestamp
                           /\ lastCheckTimes(name)' = checks[k].timestamp
                           /\ lastCheckBy(name)' = CustodianName(checks[k].custodianId)
               /\ hasActiveIncident(name)'
                    <=> \E k \in DOMAIN incidents :
                          incidents[k].restroomId = r /\ incidents[k].pending = 1]_vars

\* C31: in every mutating request answered with success the store write is
\* the first effect, and every notification of the request (the email, the
\* change broadcast) is carried out before its audit row is appended.
C31_PersistNotifyAudit ==
  [][(/\ resp' # resp
      /\ resp'.ep \in {"POST /checks", "POST /incidents", "POST /incidents/resolve"}
      /\ resp'.status \in {200, 201})
       => (/\ resp'.did # <<>>
           /\ resp'.did[1] \in {"insert", "update"}
           /\ \A i, j \in DOMAIN resp'.did :
                (resp'.did[i] \in {"email", "broadcast"} /\ resp'.did[j] = "audit")
                  => i < j)]_vars

\* C32: no step removes a row of the store or reopens a resolved incident,
\* and in particular: a request whose audit append threw after its store
\* write leaves the inserted row, or the resolved state, in the store; an
\* email whose send fails changes no row; a request that broadcast while a
\* registered stream was broken leaves its write in the store.
C32_FailureKeepsStoreWrite ==
  [][/\ \A k \in DOMAIN checks : k \in DOMAIN checks' /\ checks'[k] = checks[k]
     /\ \A k \in DOMAIN incidents :
          /\ k \in DOMAIN incidents' /\ incidents'[k].id = incidents[k].id
          /\ incidents[k].pending = 0 => incidents'[k].pending = 0
     /\ (resp' # resp /\ resp'.status = 500 /\ resp'.did # <<>>)
          => CASE resp'.ep = "POST /checks" -> Len(checks') = Len(checks) + 1
               [] resp'.ep = "POST /incidents" -> Len(incidents') = Len(incidents) + 1
               [] OTHER -> \E i \in RowIds(incidents) :
                             /\ PostResolve("s1", i, FALSE)
                             /\ \A k \in DOMAIN incidents' :
                                  incidents'[k].id = i => incidents'[k].pending = 0
     /\ \A i \in DOMAIN outbox : MailSettles(i, FALSE) => UNCHANGED <<checks, incidents>>
     /\ (/\ Len(broadcasts') > Len(broadcasts)
         /\ \E k \in DOMAIN sseClients : streams[sseClients[k]] = "broken")
          => \/ Len(checks') = Len(checks) + 1
             \/ Len(incidents') = Len(incidents) + 1
             \/ \E k \in DOMAIN incidents' :
                  incidents'[k].pending = 0 /\ incidents'[k].resolvedAt = now]_vars

\* the audit append of a check threw: the request was answered 500, no audit
\* file exists, and the check is stored
C32_Witness ==
  /\ resp.ep = "POST /checks" /\ resp.status = 500 /\ resp.did = <<"insert">>
  /\ Len(checks) = 1
  /\ reports = <<>>

\* C34: a request of POST /checks, POST /incidents or POST /incidents/resolve
\* whose audit append throws after the store write is answered 500, hands
\* nothing to the broadcast and appends no audit row, and the row it wrote
\* stays: the inserted check or incident is the last row of its table, the
\* incident named by a resolve is resolved.
C34_AuditFailureIs500NoBroadcast ==
  [][/\ \A r \in Restrooms :
          (Len(checks') > Len(checks) /\ PostChecks("s1", "joel", r, FALSE))
            => (/\ resp'.status = 500 /\ resp'.writes = <<>>
                /\ UNCHANGED <<broadcasts, reports>>
                /\ checks' = Append(checks, checks'[Len(checks')])
                /\ checks'[Len(checks')].restroomId = r)
     /\ (/\ Len(incidents') > Len(incidents)
         /\ PostIncidents("s1", "joel", "g-wing", "clogged", FALSE))
          => (/\ resp'.status = 500 /\ resp'.writes = <<>>
              /\ UNCHANGED <<broadcasts, reports>>
              /\ incidents' = Append(incidents, incidents'[Len(incidents')])
              /\ incidents'[Len(incidents')].pending = 1)
     /\ \A i \in RowIds(incidents) :
          (resp'.ep = "POST /incidents/resolve" /\ PostResolve("s1", i, FALSE))
            => (/\ resp'.status = 500 /\ resp'.writes = <<>>
                /\ UNCHANGED <<broadcasts, reports>>
                /\ \A k \in DOMAIN incidents' :
                     incidents'[k].id = i
                       => incidents'[k].pending = 0 /\ incidents'[k].resolvedAt = now)]_vars

\* the audit append of a report threw: the request was answered 500 after
\* the email was handed over, nothing was broadcast, no audit file exists,
\* and the incident is stored as pending
C34_Witness ==
  /\ resp.ep = "POST /incidents" /\ resp.status = 500
  /\ Len(incidents) = 1 /\ incidents[1].pending = 1
  /\ broadcasts = <<>> /\ reports = <<>>
  /\ emails = 1

\* C35: a resolve request of an authenticated admin session with a non-empty
\* incidentId, whose audit write succeeds, answers 200, appends exactly one
\* 'Resolved' row to the current audit file and broadcasts exactly one
\* incident-resolved event, whether or not a row matched; when the id matches
\* no incident the checks and incidents tables are unchanged and the audit
\* row names the restroom 'Unknown'.
C35_ResolveAlwaysAuditsAndBroadcasts ==
  [][\A i \in IncidentIdInputs \ {NULL} :
       (/\ sessions["s1"].isAuthenticated /\ sessions["s1"].isAdmin
        /\ PostResolve("s1", i, TRUE))
       => LET path == getCurrentReportPath
              file == reports'[path]
              last == file[Len(file)]
          IN /\ resp'.status = 200
             /\ Len(file) = CurrentReportLen + 1
             /\ path \in DOMAIN reports
                  => \A k \in DOMAIN reports[path] : file[k] = reports[path][k]
             /\ \A f \in DOMAIN reports \ {path} : reports'[f] = reports[f]
             /\ last.type = "Resolved"
             /\ broadcasts' = Append(broadcasts, "incident-resolved")
             /\ i \notin RowIds(incidents)
                  => /\ incidents' = incidents /\ checks' = checks
                     /\ last.restroom = "Unknown"
             /\ i \in RowIds(incidents)
                  => \E k \in DOMAIN incidents :
                       /\ incidents[k].id = i
                       /\ last.restroom = RestroomName(incidents[k].restroomId)]_vars

\* an unknown id was resolved while an incident is on file: the audit row
\* says 'Unknown', the event went out and the incident is still pending
C35_Witness ==
  /\ resp.ep = "POST /incidents/resolve" /\ resp.status = 200
  /\ Len(incidents) = 1 /\ incidents[1].pending = 1
  /\ Len(broadcasts) > 0 /\ broadcasts[Len(broadcasts)] = "incident-resolved"
  /\ getCurrentReportPath \in DOMAIN reports
  /\ LET file == reports[getCurrentReportPath]
     IN file[Len(file)].type = "Resolved" /\ file[Len(file)].restroom = "Unknown"

\* the rows of a table carry pairwise different ids
DistinctIds(table) ==
  \A j, k \in DOMAIN table : j # k => table[j].id # table[k].id

\* C36: in every reachable state the rows of checks carry distinct ids and so
\* do the rows of incidents; a check or a report that reaches its INSERT in a
\* millisecond in which a row of the same table was already inserted is
\* answered 500, and the table, the audit file and the broadcast log are left
\* as they were.
C36_IdsDistinctSameMsRejected ==
  /\ [](DistinctIds(checks) /\ DistinctIds(incidents))
  /\ [][/\ \A fsOk \in BOOLEAN :
            (/\ PostChecks("s1", "joel", "g-wing", fsOk)
             /\ sessions["s1"].isAuthenticated
             /\ Len(activeIncident("g-wing")) = 0
             /\ \E k \in DOMAIN checks : checks[k].timestamp = now)
            => /\ resp'.status = 500
               /\ checks' = checks /\ reports' = reports /\ broadcasts' = broadcasts
        /\ \A fsOk \in BOOLEAN :
            (/\ PostIncidents("s1", "joel", "g-wing", "clogged", fsOk)
             /\ sessions["s1"].isAuthenticated
             /\ \E k \in DOMAIN incidents : incidents[k].timestamp = now)
            => /\ resp'.status = 500
               /\ incidents' = incidents /\ reports' = reports
               /\ broadcasts' = broadcasts /\ emails' = emails]_vars

\* a second report in the millisecond of the second incident was answered 500
\* before any effect: two incidents of different milliseconds are on file
C36_Witness ==
  /\ resp.ep = "POST /incidents" /\ resp.status = 500 /\ resp.did = <<>>
  /\ Len(incidents) = 2 /\ incidents[2].timestamp = now
  /\ incidents[1].id # incidents[2].id

GuardedEndpoints ==
  ReadEndpoints \cup {"POST /checks", "POST /incidents", "POST /incidents/resolve"}

\* C37: a request carried by session A leaves the flags of every other
\* session as they were, whichever route handles it; a guarded route answers
\* 401 exactly when the session of the request is not authenticated, and the
\* resolve route answers 403 exactly when that session is authenticated and
\* not admin, whatever the flags of the other sessions are.
C37_CapabilitiesPerSession ==
  [][\A a \in Sessions :
       resp'.sid = a
       => /\ \A b \in Sessions \ {a} : sessions'[b] = sessions[b]
          /\ resp'.ep \in GuardedEndpoints
               => (resp'.status = 401 <=> ~sessions[a].isAuthenticated)
          /\ resp'.ep = "POST /incidents/resolve"
               => (resp'.status = 403
                     <=> sessions[a].isAuthenticated /\ ~sessions[a].isAdmin)]_vars

\* one browser holds both capabilities and the request of the other browser
\* was turned away by the guard
C37_Witness ==
  /\ sessions["s1"].isAuthenticated /\ sessions["s1"].isAdmin
  /\ ~sessions["s2"].isAuthenticated /\ ~sessions["s2"].isAdmin
  /\ resp.sid = "s2" /\ resp.ep = "POST /incidents/resolve" /\ resp.status = 401

\* C38 (as claimed): a login or an admin login whose password is empty,
\* whitespace-only, missing or not a string is rejected and leaves the
\* session flags as they were; a login while USER_PASSWORD is not set, and an
\* admin login while ADMIN_PASSWORD is not set, is answered 500 and sets no
\* flag, whatever the password.
C38_NoGrantWithoutPasswordOrSecret ==
  [][\A s \in Sessions, raw \in PasswordInputs :
       /\ PostAuthLogin(s, raw)
            => /\ password(raw) = <<>>
                    => (resp'.status \in {401, 500} /\ sessions' = sessions)
               /\ env.USER_PASSWORD = <<>>
                    => (resp'.status = 500 /\ sessions' = sessions)
       /\ PostAdminLogin(s, raw)
            => /\ password(raw) = <<>>
                    => (resp'.status \in {401, 500} /\ sessions' = sessions)
               /\ env.ADMIN_PASSWORD = <<>>
                    => (resp'.status = 500 /\ sessions' = sessions)]_vars

(***************************************************************************)
(* The event stream of the React client (App.jsx 40-57): the SSE effect    *)
(* runs when isAuthenticated becomes true, and again only when it changes. *)
(***************************************************************************)
\* const es = new EventSource(url): GET /events joins the registry; the
\* events broadcast before are not delivered to it
EsOpen(s, l) ==
  /\ es.state = "none" /\ isAuthenticated(s)
  /\ streams[l] \in {"none", "closed"}
  /\ es' = [state |-> "open", seen |-> Len(broadcasts), closedAt |-> 0]
  /\ sseClients' = Append(sseClients, l)
  /\ streams' = [streams EXCEPT ![l] = "open"]
  /\ resp' = Response("GET /events", s, 200)
  /\ UNCHANGED <<env, zone, clientLogs, outbox, inflight, sessions, store, now, effects,
                 clientIncidents>>

\* es.onmessage for a data-changed event: loadData(false)
EsMessage(s, l) ==
  /\ es.state = "open" /\ streams[l] = "open"
  /\ es.seen < Len(broadcasts)
  /\ es' = [es EXCEPT !.seen = @ + 1]
  /\ IF isAuthenticated(s)
       THEN /\ clientLogs' = getChecks
            /\ clientIncidents' = getIncidents
            /\ resp' = Response("GET /incidents", s, 200)
       ELSE /\ resp' = Response("GET /incidents", s, 401)
            /\ UNCHANGED <<clientIncidents, clientLogs>>
  /\ UNCHANGED <<env, zone, sseClients, streams, outbox, inflight, sessions, store, now, effects>>

\* es.onerror = () => es.close(): the failed connection is given up and the
\* browser's automatic reconnection is cancelled
EsError(l) ==
  /\ es.state = "open" /\ streams[l] \in {"broken", "closed"}
  /\ es' = [es EXCEPT !.state = "closed", !.closedAt = Len(broadcasts)]
  /\ UNCHANGED <<env, zone, clientLogs, sseClients, streams, outbox, inflight, sessions, store,
                 now, effects, clientIncidents, resp>>

\* the browser of s1 is logged in; the admin of another browser makes the
\* changes
InitReconnect ==
  /\ es = NoEs
  /\ zone = NoZone
  /\ env = [USER_PASSWORD |-> <<"s">>, ADMIN_PASSWORD |-> <<"a">>,
            SMTP |-> TRUE, ADMIN_EMAIL |-> TRUE]
  /\ sessions = [s \in Sessions |->
                   [isAuthenticated |-> TRUE, isAdmin |-> s = "s2"]]
  /\ checks = <<>>
  /\ incidents = <<>>
  /\ now = 0
  /\ reports = <<>>
  /\ broadcasts = <<>>
  /\ emails = 0
  /\ clientIncidents = <<>>
  /\ clientLogs = <<>>
  /\ resp = NoResp
  /\ inflight = [q \in Requests |-> Idle]
  /\ sseClients = <<>>
  /\ streams = [l \in Listeners |-> "none"]
  /\ outbox = <<>>

NextReconnect ==
  \/ Tick
  \/ EsOpen("s1", "l1")
  \/ EsMessage("s1", "l1")
  \/ SseBreak("l1")
  \/ SseClose("l1")
  \/ EsError("l1")
  \/ \E r \in Restrooms : PostChecks("s2", "joel", r, TRUE)
  \/ PostIncidents("s2", "joel", "g-wing", "clogged", TRUE)
  \/ \E i \in RowIds(incidents) : PostResolve("s2", i, TRUE)

\* the effect, the message handler and the error handler run by themselves
\* whenever they can; requests and failures of the connection need not happen
SpecReconnect ==
  /\ InitReconnect /\ [][NextReconnect]_vars
  /\ WF_vars(EsOpen("s1", "l1"))
  /\ WF_vars(EsMessage("s1", "l1"))
  /\ WF_vars(EsError("l1"))

\* C33 (as claimed): once the client's EventSource reported an error, a
\* change broadcast afterwards leads to a refetch in that client, so that its
\* logs and incidents are again those of the server, without a new login.
C33_RefetchAfterDisconnect ==
  (es.state = "closed" /\ Len(broadcasts) > es.closedAt)
    ~> (clientLogs = getChecks /\ clientIncidents = getIncidents)

(***************************************************************************)
(* The month key of the monthly task on a server whose local time is       *)
(* offset minutes ahead of UTC.  Instants are minutes of UTC; the months   *)
(* of the model calendar have 28 days each.                                *)
(***************************************************************************)
MaxRunMonth == 5

MonthMinutes == 28 * 24 * 60

\* the offsets of the time zones in use, UTC-12:00 to UTC+14:00
Offsets == {h * 60 : h \in -12..14}

\* toISOString().slice(0, 7): the UTC month of an instant
isoMonth(utc) == utc \div MonthMinutes

\* now.getMonth(): the local month of an instant
getMonth(utc, offset) == (utc + offset) \div MonthMinutes

\* new Date(year, month, 1): the instant of local midnight of the first day
localFirstOfMonth(month, offset) == month * MonthMinutes - offset

\* '5 0 1 * *': the instant of 00:05 local time on the first day of a month
cronInstant(month, offset) == month * MonthMinutes + 5 - offset

\* prevMonth = new Date(now.getFullYear(), now.getMonth() - 1, 1);
\* YYYYMM = prevMonth.toISOString().slice(0, 7)
prevMonthKey(utc, offset) ==
  isoMonth(localFirstOfMonth(getMonth(utc, offset) - 1, offset))

\* the task runs on the first day of local month m; no audit file exists, so
\* it returns once it has computed the key and looked for the file
CronRun(m) ==
  /\ reports = <<>>
  /\ LET t == cronInstant(m, zone.offset)
     IN zone' = [zone EXCEPT !.month = m, !.utcMonth = isoMonth(t),
                              !.YYYYMM = prevMonthKey(t, zone.offset)]
  /\ UNCHANGED <<env, es, clientLogs, sseClients, streams, outbox, inflight, sessions, store,
                 now, effects, clientIncidents, resp>>

InitZone ==
  /\ es = NoEs
  /\ zone \in {[NoZone EXCEPT !.offset = o] : o \in Offsets}
  /\ env = [USER_PASSWORD |-> <<"s">>, ADMIN_PASSWORD |-> <<"a">>,
            SMTP |-> TRUE, ADMIN_EMAIL |-> TRUE]
  /\ sessions = [s \in Sessions |-> NewSession]
  /\ checks = <<>>
  /\ incidents = <<>>
  /\ now = 0
  /\ reports = <<>>
  /\ broadcasts = <<>>
  /\ emails = 0
  /\ clientIncidents = <<>>
  /\ clientLogs = <<>>
  /\ resp = NoResp
  /\ inflight = [q \in Requests |-> Idle]
  /\ sseClients = <<>>
  /\ streams = [l \in Listeners |-> "none"]
  /\ outbox = <<>>

NextZone == \E m \in 2..MaxRunMonth : CronRun(m)

SpecZone == InitZone /\ [][NextZone]_vars

\* C39 (as claimed): whatever the UTC offset of the server, the key the task
\* computes when it runs at 00:05 local time on the first day of month M is
\* the key of month M - 1.
C39_KeyIsPreviousLocalMonth ==
  zone.month # NULL => zone.YYYYMM = zone.month - 1

====
